---- MODULE Spec2Model ----
(***************************************************************************)
(* School attendance backend (src/main.py, src/schemas.py): the HTTP       *)
(* handlers over the document collections student, attendance, agenda and *)
(* grade.  Requests are served concurrently: every store call is one       *)
(* atomic step, and delete_student, which makes three store calls, is one  *)
(* action per call, so that the steps of other requests interleave with    *)
(* its own.  The store driver is pymongo: it parses ObjectId texts          *)
(* case-insensitively and does not encode datetime.date values.            *)
(***************************************************************************)
EXTENDS Integers, FiniteSets, Sequences, Bags, TLC

VARIABLES db, student, attendance, agenda, grade, nextId, inflight, resp, hist

vars == <<db, student, attendance, agenda, grade, nextId, inflight, resp, hist>>

(* ---------------------------------------------------------------- bounds *)

\* ObjectIds the store generates in one run: 1..MaxId.
MaxId == 3
\* Calendar dates are the day ordinals 1..MaxDate.
MaxDate == 2
\* Multi-step requests that may be between two of their store calls at once.
MaxInflight == 2

(* ------------------------------------------------------- values and text *)

\* Python None for an Optional[str] / a missing body.
None == "None"
\* Python None for an Optional[date]; dates are ordinals >= 1 and always truthy.
NoDate == 0
\* find_one's None result.
NoDoc == [none |-> TRUE]

\* database.db when a store is configured: a pymongo Database.  Its truth value
\* depends on the installed pymongo: before 4.0 a Database is truthy, from 4.0
\* on Database.__bool__ raises NotImplementedError.
Database == "Database"
DatabaseNoBool == "Database (bool raises)"

Dates == 1..MaxDate
OptDates == {NoDate} \cup Dates
Statuses == {"Hadir", "Alfa"}
Names == {"Ani", "Budi"}
ClassNames == {"5A"}
Subjects == {"Math"}
Titles == {"Rapat"}

\* str(ObjectId): the 24-hex-digit text of the n-th generated ObjectId.
IdText == <<"65a000000000000000000001", "65a000000000000000000002",
            "65a000000000000000000003", "65a000000000000000000004",
            "65a000000000000000000005", "65a000000000000000000006">>
\* The same ids spelled with upper-case hex digits.
IdTextUpper == <<"65A000000000000000000001", "65A000000000000000000002",
                 "65A000000000000000000003", "65A000000000000000000004",
                 "65A000000000000000000005", "65A000000000000000000006">>
\* A text that is no well-formed ObjectId.
BadId == "xyz"
\* ObjectId(text) raised bson.errors.InvalidId.
InvalidId == 0

\* str(oid) is the lower-case text.
str(oid) == IdText[oid]

\* bson.ObjectId(text): any 24 hex digits, read case-insensitively.
ObjectId(text) ==
    IF \E n \in DOMAIN IdText : text \in {IdText[n], IdTextUpper[n]}
    THEN CHOOSE n \in DOMAIN IdText : text \in {IdText[n], IdTextUpper[n]}
    ELSE InvalidId

\* The student_id texts request bodies carry (an unchecked reference).
StudentIds == {IdText[1], BadId}
\* The student_id query parameter: absent, empty, or a text.
QueryStudentIds == {None, ""} \cup StudentIds
\* The id texts of path parameters.
PathIds == {IdText[1], IdText[2], IdTextUpper[1], BadId}

\* Python truthiness of an Optional[str]: None and "" are falsy.
Truthy(s) == s # None /\ s # ""

(* ------------------------------------------------------------ validation *)

ScoreMin == 0
ScoreMax == 100
Scores == {ScoreMin - 1, ScoreMin, ScoreMax, ScoreMax + 1}

\* Mutant of GradeScoreValid: the lower bound exclusive (gt=0 for ge=0).
GradeScoreValid_gt(score) == score > ScoreMin /\ score <= ScoreMax

\* Grade.score: Field(..., ge=0, le=100).
GradeScoreValid(score) == score >= ScoreMin /\ score <= ScoreMax

(* --------------------------------------------------------- serialization *)

\* Mutant of serialize: renders the wrong ObjectId.
serialize_wrong_id(doc) ==
    IF doc = NoDoc THEN doc ELSE [doc EXCEPT !._id = str(doc._id + 1)]

serialize(doc) ==
    IF doc = NoDoc THEN doc ELSE [doc EXCEPT !._id = str(doc._id)]

(* ------------------------------------------------------- store operations *)

\* Mutant of delete_many: nothing deleted.
delete_many_nothing(coll, student_id) == coll

\* collection.delete_many({"student_id": student_id})
delete_many(coll, student_id) == {d \in coll : d.student_id # student_id}

\* collection.delete_one({"_id": oid}); _id is unique in a collection.
delete_one(coll, oid) == {d \in coll : d._id # oid}

deleted_count(coll, after) == Cardinality(coll) - Cardinality(after)

(* ------------------------------------------------------------- responses *)

Response(op, req, code, body) == [op |-> op, req |-> req, code |-> code, body |-> body]

NoResponse == Response("none", NoDoc, 0, NoDoc)

StoreDown == [detail |-> "Database not available"]

Connected == db # None

\* `if db`: the truth value the handler takes of database.db, where there is one.
bool(d) == d = Database
\* bool(db) raises instead of answering.
bool_raises(d) == d = DatabaseNoBool

\* The unhandled exception of a truth test on a pymongo >= 4 Database.
NotImplementedError == [detail |-> "NotImplementedError"]

\* The driver's BSON encoder on a date field of a filter or an update:
\* payload.model_dump() and the query parameters carry datetime.date, which
\* bson does not encode (it encodes datetime.datetime); None it encodes.
encodes(date) == date = NoDate

\* The unhandled bson.errors.InvalidDocument of a store call whose filter or
\* update carries a datetime.date; the call reaches no document.
InvalidDocument == [detail |-> "InvalidDocument"]

\* History variable hist: what a claim about several steps in succession
\* needs of the steps before the current one.  Every step sets it, so it
\* describes the steps that immediately precede the current state.
\* Following(op) is the previous response when the previous step answered
\* handler op, and nothing otherwise.
Following(op) == IF resp.op = op THEN resp ELSE NoResponse

\* The handler whose store calls have run back to back, with no step of
\* another request between them, up to call `stage`.
Run(op, stage, req, before) ==
    [op |-> op, stage |-> stage, req |-> req, before |-> before]

Continues(op, stage, req) ==
    hist.op = op /\ hist.stage = stage /\ hist.req = req

(* ------------------------------------------------ students (main.py 96-124) *)

\* database.create_document(collection, payload): insert, return str(inserted_id).
create_document(coll, doc) == coll \cup {doc}

\* create_document without a store connection raises a plain Exception, which
\* no handler catches: the request answers 500 with no HTTPException detail.
StoreUnavailable == [detail |-> "Exception"]

\* database.get_documents(collection, filter): every matching document, or
\* nothing when there is no store connection.
get_documents(coll, student_id) ==
    IF ~Connected THEN {}
    ELSE IF student_id = None THEN coll
    ELSE {d \in coll : d.student_id = student_id}

create_student(name, className) ==
    LET req == [name |-> name, className |-> className] IN
    /\ IF ~Connected
       THEN /\ resp' = Response("create_student", req, 500, StoreUnavailable)
            /\ UNCHANGED <<student, nextId>>
       ELSE /\ nextId <= MaxId
            /\ student' = create_document(student,
                              [_id |-> nextId, name |-> name, className |-> className])
            /\ nextId' = nextId + 1
            /\ resp' = Response("create_student", req, 200, [_id |-> str(nextId)])
    /\ hist' = NoResponse
    /\ UNCHANGED <<db, attendance, agenda, grade, inflight>>

list_students ==
    /\ resp' = Response("list_students", NoDoc, 200,
                        {serialize(d) : d \in get_documents(student, None)})
    /\ hist' = Following("create_student")
    /\ UNCHANGED <<db, student, attendance, agenda, grade, nextId, inflight>>

(* --------------------------------------------- attendance (main.py 127-189) *)

\* Mutant of mark_attendance: the write goes through and inserts a record
\* whether or not the key is stored.
mark_attendance_inserts(student_id, date, status) ==
    LET data == [student_id |-> student_id, date |-> date, status |-> status]
        doc == [_id |-> nextId, student_id |-> student_id, date |-> date,
                status |-> status, created_at |-> None] IN
    /\ nextId <= MaxId
    /\ attendance' = attendance \cup {doc}
    /\ nextId' = nextId + 1
    /\ resp' = Response("mark_attendance", data, 200, serialize(doc))
    /\ hist' = Following("mark_attendance")
    /\ UNCHANGED <<db, student, agenda, grade, inflight>>

\* The filter and the $set of update_one (lines 132-137) both carry
\* payload.date, a required datetime.date: the driver refuses to encode them,
\* update_one raises before anything reaches the store, and the re-fetch of
\* lines 138-139 is not reached.
mark_attendance(student_id, date, status) ==
    LET data == [student_id |-> student_id, date |-> date, status |-> status] IN
    /\ resp' = IF ~Connected
               THEN Response("mark_attendance", data, 500, StoreDown)
               ELSE Response("mark_attendance", data, 500, InvalidDocument)
    /\ hist' = Following("mark_attendance")
    /\ UNCHANGED <<db, student, attendance, agenda, grade, nextId, inflight>>

delete_attendance(attendance_id) ==
    LET req == [attendance_id |-> attendance_id]
        oid == ObjectId(attendance_id)
        after == delete_one(attendance, oid) IN
    /\ IF ~Connected
       THEN /\ resp' = Response("delete_attendance", req, 500, StoreDown)
            /\ UNCHANGED attendance
       ELSE IF oid = InvalidId
       THEN /\ resp' = Response("delete_attendance", req, 500, [detail |-> "InvalidId"])
            /\ UNCHANGED attendance
       ELSE /\ attendance' = after
            /\ resp' = IF deleted_count(attendance, after) = 0
                       THEN Response("delete_attendance", req, 404,
                                     [detail |-> "Attendance not found"])
                       ELSE Response("delete_attendance", req, 200, [deleted |-> TRUE])
    /\ hist' = NoResponse
    /\ UNCHANGED <<db, student, agenda, grade, nextId, inflight>>

(* ------------------------------------------------- grades (main.py 221-239) *)

add_grade(student_id, subject, score, date) ==
    LET req == [student_id |-> student_id, subject |-> subject, score |-> score,
                date |-> date] IN
    /\ IF ~GradeScoreValid(score)
       THEN /\ resp' = Response("add_grade", req, 422, [detail |-> "validation"])
            /\ UNCHANGED <<grade, nextId>>
       ELSE IF ~Connected
       THEN /\ resp' = Response("add_grade", req, 500, StoreUnavailable)
            /\ UNCHANGED <<grade, nextId>>
       ELSE /\ nextId <= MaxId
            /\ grade' = create_document(grade,
                            [_id |-> nextId, student_id |-> student_id, subject |-> subject,
                             score |-> score, date |-> date])
            /\ nextId' = nextId + 1
            /\ resp' = Response("add_grade", req, 200, [_id |-> str(nextId)])
    /\ hist' = NoResponse
    /\ UNCHANGED <<db, student, attendance, agenda, inflight>>

delete_grade(grade_id) ==
    LET req == [grade_id |-> grade_id]
        oid == ObjectId(grade_id)
        after == delete_one(grade, oid) IN
    /\ IF ~Connected
       THEN /\ resp' = Response("delete_grade", req, 500, StoreDown)
            /\ UNCHANGED grade
       ELSE IF oid = InvalidId
       THEN /\ resp' = Response("delete_grade", req, 500, [detail |-> "InvalidId"])
            /\ UNCHANGED grade
       ELSE /\ grade' = after
            /\ resp' = IF deleted_count(grade, after) = 0
                       THEN Response("delete_grade", req, 404, [detail |-> "Grade not found"])
                       ELSE Response("delete_grade", req, 200, [deleted |-> TRUE])
    /\ hist' = NoResponse
    /\ UNCHANGED <<db, student, attendance, agenda, nextId, inflight>>

\* The filter dict list_attendance builds: student_id None when the key is
\* absent; the "date" key holds nothing, an exact date, or a range.
NoDateFilter == [kind |-> "none", eq |-> NoDate, gte |-> NoDate, lte |-> NoDate]

attendance_filter(student_id, on_date, start_date, end_date) ==
    LET f0 == [student_id |-> None, date |-> NoDateFilter]
        f1 == IF Truthy(student_id) THEN [f0 EXCEPT !.student_id = student_id] ELSE f0
        f2 == IF on_date # NoDate
              THEN [f1 EXCEPT !.date = [NoDateFilter EXCEPT !.kind = "eq", !.eq = on_date]]
              ELSE f1
        rng == [NoDateFilter EXCEPT !.kind = "range", !.gte = start_date, !.lte = end_date]
    IN  IF start_date # NoDate \/ end_date # NoDate
        THEN [f2 EXCEPT !.date = rng]
        ELSE f2

\* Whether a document satisfies the filter (MongoDB equality, $gte, $lte).
matches(doc, filt) ==
    /\ filt.student_id # None => doc.student_id = filt.student_id
    /\ filt.date.kind = "eq" => doc.date = filt.date.eq
    /\ filt.date.kind = "range" =>
          /\ filt.date.gte # NoDate => doc.date >= filt.date.gte
          /\ filt.date.lte # NoDate => doc.date <= filt.date.lte

find(coll, filt) == {d \in coll : matches(d, filt)}

\* Whether the driver encodes the filter: each date it holds must encode.
encodes_filter(filt) ==
    /\ filt.date.kind = "eq" => encodes(filt.date.eq)
    /\ filt.date.kind = "range" => encodes(filt.date.gte) /\ encodes(filt.date.lte)

list_attendance(student_id, on_date, start_date, end_date) ==
    LET req == [student_id |-> student_id, on_date |-> on_date,
                start_date |-> start_date, end_date |-> end_date]
        filt == attendance_filter(student_id, on_date, start_date, end_date)
        docs == IF bool(db) THEN find(attendance, filt) ELSE {} IN
    /\ resp' = IF bool_raises(db)
               THEN Response("list_attendance", req, 500, NotImplementedError)
               ELSE IF bool(db) /\ ~encodes_filter(filt)
               THEN Response("list_attendance", req, 500, InvalidDocument)
               ELSE Response("list_attendance", req, 200, {serialize(d) : d \in docs})
    /\ hist' = NoResponse
    /\ UNCHANGED <<db, student, attendance, agenda, grade, nextId, inflight>>

list_grades(student_id) ==
    LET filt == IF Truthy(student_id) THEN student_id ELSE None IN
    /\ resp' = Response("list_grades", [student_id |-> student_id], 200,
                        {serialize(d) : d \in get_documents(grade, filt)})
    /\ hist' = NoResponse
    /\ UNCHANGED <<db, student, attendance, agenda, grade, nextId, inflight>>

\* update_one({"_id": oid}, {"$set": fields}): the matched document gets the fields.
update_one(coll, oid, fields) ==
    {IF d._id = oid THEN [k \in DOMAIN d |-> IF k \in DOMAIN fields THEN fields[k] ELSE d[k]]
     ELSE d : d \in coll}

matched_count(coll, oid) == Cardinality({d \in coll : d._id = oid})

update_student(student_id, name, className) ==
    LET req == [student_id |-> student_id, name |-> name, className |-> className]
        oid == ObjectId(student_id) IN
    /\ IF ~Connected
       THEN /\ resp' = Response("update_student", req, 500, StoreDown)
            /\ UNCHANGED student
       ELSE IF oid = InvalidId
       THEN /\ resp' = Response("update_student", req, 500, [detail |-> "InvalidId"])
            /\ UNCHANGED student
       ELSE /\ student' = update_one(student, oid, [name |-> name, className |-> className])
            /\ resp' = IF matched_count(student, oid) = 0
                       THEN Response("update_student", req, 404, [detail |-> "Student not found"])
                       ELSE Response("update_student", req, 200, [updated |-> TRUE])
    /\ hist' = NoResponse
    /\ UNCHANGED <<db, attendance, agenda, grade, nextId, inflight>>

(* ------------------------------------------------ agendas (main.py 192-218) *)

create_agenda(title, date, note) ==
    LET req == [title |-> title, date |-> date, note |-> note] IN
    /\ IF ~Connected
       THEN /\ resp' = Response("create_agenda", req, 500, StoreUnavailable)
            /\ UNCHANGED <<agenda, nextId>>
       ELSE /\ nextId <= MaxId
            /\ agenda' = create_document(agenda,
                             [_id |-> nextId, title |-> title, date |-> date, note |-> note])
            /\ nextId' = nextId + 1
            /\ resp' = Response("create_agenda", req, 200, [_id |-> str(nextId)])
    /\ hist' = NoResponse
    /\ UNCHANGED <<db, student, attendance, grade, inflight>>

list_agendas ==
    /\ resp' = Response("list_agendas", NoDoc, 200,
                        {serialize(d) : d \in get_documents(agenda, None)})
    /\ hist' = NoResponse
    /\ UNCHANGED <<db, student, attendance, agenda, grade, nextId, inflight>>

update_agenda(agenda_id, title, date, note) ==
    LET req == [agenda_id |-> agenda_id, title |-> title, date |-> date, note |-> note]
        oid == ObjectId(agenda_id) IN
    /\ IF ~Connected
       THEN /\ resp' = Response("update_agenda", req, 500, StoreDown)
            /\ UNCHANGED agenda
       ELSE IF oid = InvalidId
       THEN /\ resp' = Response("update_agenda", req, 500, [detail |-> "InvalidId"])
            /\ UNCHANGED agenda
       ELSE IF ~encodes(date)
       THEN /\ resp' = Response("update_agenda", req, 500, InvalidDocument)
            /\ UNCHANGED agenda
       ELSE /\ agenda' = update_one(agenda, oid, [title |-> title, date |-> date, note |-> note])
            /\ resp' = IF matched_count(agenda, oid) = 0
                       THEN Response("update_agenda", req, 404, [detail |-> "Agenda not found"])
                       ELSE Response("update_agenda", req, 200, [updated |-> TRUE])
    /\ hist' = NoResponse
    /\ UNCHANGED <<db, student, attendance, grade, nextId, inflight>>

delete_agenda(agenda_id) ==
    LET req == [agenda_id |-> agenda_id]
        oid == ObjectId(agenda_id)
        after == delete_one(agenda, oid) IN
    /\ IF ~Connected
       THEN /\ resp' = Response("delete_agenda", req, 500, StoreDown)
            /\ UNCHANGED agenda
       ELSE IF oid = InvalidId
       THEN /\ resp' = Response("delete_agenda", req, 500, [detail |-> "InvalidId"])
            /\ UNCHANGED agenda
       ELSE /\ agenda' = after
            /\ resp' = IF deleted_count(agenda, after) = 0
                       THEN Response("delete_agenda", req, 404, [detail |-> "Agenda not found"])
                       ELSE Response("delete_agenda", req, 200, [deleted |-> TRUE])
    /\ hist' = NoResponse
    /\ UNCHANGED <<db, student, attendance, grade, nextId, inflight>>

(* ------------------------------------------- store calls of delete_student *)

\* A request between two of its store calls: the handler, the call it makes
\* next, and its local variables.
Pending(op, pc, student_id, date, status) ==
    [op |-> op, pc |-> pc, student_id |-> student_id, date |-> date, status |-> status]

Begin(c) == inflight' = inflight (+) SetToBag({c})
Advance(c, d) == inflight' = (inflight (-) SetToBag({c})) (+) SetToBag({d})
Finish(c) == inflight' = inflight (-) SetToBag({c})
Waiting(op, pc) == {c \in BagToSet(inflight) : c.op = op /\ c.pc = pc}

\* delete_student, lines 117-119: the guard and the attendance delete_many.
delete_student_attendance(student_id) ==
    /\ IF ~Connected
       THEN /\ resp' = Response("delete_student", [student_id |-> student_id], 500, StoreDown)
            /\ hist' = NoResponse
            /\ UNCHANGED <<attendance, inflight>>
       ELSE /\ BagCardinality(inflight) < MaxInflight
            /\ attendance' = delete_many(attendance, student_id)
            /\ Begin(Pending("delete_student", "grade", student_id, NoDate, None))
            /\ resp' = NoResponse
            /\ hist' = Run("delete_student", "attendance", student_id,
                           [student |-> student, attendance |-> attendance,
                            agenda |-> agenda, grade |-> grade])
    /\ UNCHANGED <<db, student, agenda, grade, nextId>>

\* delete_student, line 120: the grade delete_many.
delete_student_grade ==
    \E c \in Waiting("delete_student", "grade") :
        /\ grade' = delete_many(grade, c.student_id)
        /\ Advance(c, [c EXCEPT !.pc = "student"])
        /\ resp' = NoResponse
        /\ hist' = IF Continues("delete_student", "attendance", c.student_id)
                   THEN [hist EXCEPT !.stage = "grade"]
                   ELSE NoResponse
        /\ UNCHANGED <<db, student, attendance, agenda, nextId>>

\* delete_student, lines 121-124: the student delete_one and the response.
delete_student_student ==
    \E c \in Waiting("delete_student", "student") :
        LET req == [student_id |-> c.student_id]
            oid == ObjectId(c.student_id)
            after == delete_one(student, oid) IN
        /\ IF oid = InvalidId
           THEN /\ resp' = Response("delete_student", req, 500, [detail |-> "InvalidId"])
                /\ UNCHANGED student
           ELSE /\ student' = after
                /\ resp' = IF deleted_count(student, after) = 0
                           THEN Response("delete_student", req, 404,
                                         [detail |-> "Student not found"])
                           ELSE Response("delete_student", req, 200, [deleted |-> TRUE])
        /\ Finish(c)
        /\ hist' = IF Continues("delete_student", "grade", c.student_id)
                   THEN [hist EXCEPT !.stage = "student"]
                   ELSE NoResponse
        /\ UNCHANGED <<db, attendance, agenda, grade, nextId>>

(* ----------------------------------------------------------- specification *)

Init ==
    /\ db \in {None, Database, DatabaseNoBool}
    /\ student = {}
    /\ attendance = {}
    /\ agenda = {}
    /\ grade = {}
    /\ nextId = 1
    /\ inflight = EmptyBag
    /\ resp = NoResponse
    /\ hist = NoResponse

\* Every handler that writes, and the cascade.
Next ==
    \/ \E c \in ClassNames : create_student("Ani", c)
    \/ \E id \in PathIds : delete_student_attendance(id)
    \/ delete_student_grade
    \/ delete_student_student
    \/ \E s \in StudentIds : mark_attendance(s, 1, "Hadir")
    \/ \E id \in PathIds : delete_attendance(id)
    \/ \E t \in Titles : create_agenda(t, 1, None)
    \/ list_agendas
    \/ \E id \in PathIds, t \in Titles : update_agenda(id, t, MaxDate, None)
    \/ \E id \in PathIds : delete_agenda(id)
    \/ \E s \in StudentIds, sub \in Subjects : add_grade(s, sub, ScoreMax, NoDate)
    \/ \E id \in PathIds : delete_grade(id)

Spec == Init /\ [][Next]_vars

\* Students created, listed, updated and deleted.
NextCreate ==
    \/ \E n \in Names, c \in ClassNames : create_student(n, c)
    \/ list_students
    \/ \E id \in StudentIds, n \in Names, c \in ClassNames : update_student(id, n, c)
    \/ \E id \in StudentIds : delete_student_attendance(id)
    \/ delete_student_grade
    \/ delete_student_student

SpecCreate == Init /\ [][NextCreate]_vars

\* Grades added, listed and deleted, one by one and by the cascade.
NextGrade ==
    \/ \E s \in StudentIds, sub \in Subjects, sc \in Scores : add_grade(s, sub, sc, NoDate)
    \/ \E s \in QueryStudentIds : list_grades(s)
    \/ \E id \in PathIds : delete_grade(id)
    \/ \E id \in StudentIds : delete_student_attendance(id)
    \/ delete_student_grade
    \/ delete_student_student

SpecGrade == Init /\ [][NextGrade]_vars

\* Attendance marked, deleted and listed.
NextList ==
    \/ \E s \in StudentIds, d \in Dates : mark_attendance(s, d, "Hadir")
    \/ \E id \in PathIds : delete_attendance(id)
    \/ \E s \in {None, "", IdText[1]}, on \in OptDates, sd \in OptDates, ed \in OptDates :
           list_attendance(s, on, sd, ed)

SpecList == Init /\ [][NextList]_vars

\* The attendance of one day: the store calls of mark_attendance and
\* delete_student interleave with each other and with delete_attendance.
NextConc ==
    \/ \E s \in StudentIds, d \in Dates, st \in Statuses : mark_attendance(s, d, st)
    \/ \E id \in PathIds : delete_attendance(id)
    \/ \E id \in PathIds : delete_student_attendance(id)
    \/ delete_student_grade
    \/ delete_student_student

SpecConc == Init /\ [][NextConc]_vars

\* The cascade: the store calls of delete_student interleave with
\* create_student, mark_attendance and add_grade.
NextConcCascade ==
    \/ \E c \in ClassNames : create_student("Ani", c)
    \/ \E id \in {IdText[1], IdTextUpper[1], BadId} : delete_student_attendance(id)
    \/ delete_student_grade
    \/ delete_student_student
    \/ \E s \in StudentIds : mark_attendance(s, 1, "Hadir")
    \/ \E s \in StudentIds, sub \in Subjects : add_grade(s, sub, ScoreMax, NoDate)

SpecConcCascade == Init /\ [][NextConcCascade]_vars

(* ------------------------------------------------------------------ claims *)

Store == <<student, attendance, agenda, grade, nextId>>

\* A stored document as the responses render it: its _id as text.
Rendered(d) == [d EXCEPT !._id = IdText[d._id]]

\* The attendance records stored under one (student_id, date).
Stored(student_id, date) ==
    {a \in attendance : a.student_id = student_id /\ a.date = date}

SameKey(p, q) == p.student_id = q.student_id /\ p.date = q.date

Gained(bag, bag2) == {c \in BagToSet(bag2) : CopiesIn(c, bag2) > CopiesIn(c, bag)}

C2_LastWriteWins ==
    (/\ Connected
     /\ resp.op = "mark_attendance" /\ hist.op = "mark_attendance"
     /\ SameKey(hist.req, resp.req)
     /\ hist.req.status # resp.req.status)
    => /\ resp.code = 200
       /\ Cardinality(Stored(resp.req.student_id, resp.req.date)) = 1
       /\ \A a \in Stored(resp.req.student_id, resp.req.date) :
              a.status = resp.req.status
       /\ resp.body # NoDoc
       /\ resp.body.status = resp.req.status

\* With the store connected, a mark-attendance answers a server error and
\* stores nothing.
MarkAttendanceRefused ==
    [][(resp'.op = "mark_attendance" /\ Connected)
       => /\ resp'.code = 500 /\ resp'.body = InvalidDocument
          /\ UNCHANGED Store]_vars

\* The records of a collection that carry the student_id.
Referencing(coll, student_id) == {d \in coll : d.student_id = student_id}

\* The stored student a path id names, if any.
Named(coll, id) == {d \in coll : d._id = ObjectId(id)}

\* C3: delete-student, its three store calls run back to back on an existing
\* student, answers success; afterwards the student and every attendance and
\* grade record that carried its id are gone, and every other record of the
\* collections is as it was before the request.
C3_CascadeDelete ==
    (/\ hist.op = "delete_student" /\ hist.stage = "student"
     /\ Named(hist.before.student, hist.req) # {})
    => /\ resp.op = "delete_student" /\ resp.code = 200
       /\ student = hist.before.student \ Named(hist.before.student, hist.req)
       /\ \A s \in Named(hist.before.student, hist.req) :
             /\ attendance = hist.before.attendance
                               \ Referencing(hist.before.attendance, str(s._id))
             /\ grade = hist.before.grade \ Referencing(hist.before.grade, str(s._id))
       /\ agenda = hist.before.agenda

\* Where the path id is the text the create returned, the cascade does remove
\* the student and its dependents and nothing else.
CascadeByCanonicalId ==
    (/\ hist.op = "delete_student" /\ hist.stage = "student"
     /\ \E s \in hist.before.student : str(s._id) = hist.req)
    => /\ resp.op = "delete_student" /\ resp.code = 200
       /\ student = hist.before.student \ Named(hist.before.student, hist.req)
       /\ attendance = hist.before.attendance \ Referencing(hist.before.attendance, hist.req)
       /\ grade = hist.before.grade \ Referencing(hist.before.grade, hist.req)
       /\ agenda = hist.before.agenda

\* A student with a grade record has just been deleted by the text its create
\* returned, the three store calls back to back; both records are gone.
CascadeReached ==
    /\ hist.op = "delete_student" /\ hist.stage = "student"
    /\ resp.op = "delete_student" /\ resp.code = 200
    /\ \E s \in hist.before.student : str(s._id) = hist.req
    /\ Referencing(hist.before.grade, hist.req) # {}
    /\ student = {} /\ grade = {}

\* A delete-student of a well-formed id that matched no student, its three
\* store calls back to back, answered not-found and changed nothing.
DeleteStudentMissing ==
    (/\ hist.op = "delete_student" /\ hist.stage = "student"
     /\ ObjectId(hist.req) # InvalidId
     /\ Named(hist.before.student, hist.req) = {})
    => /\ resp.op = "delete_student" /\ resp.code = 404
       /\ student = hist.before.student
       /\ attendance = hist.before.attendance
       /\ grade = hist.before.grade
       /\ agenda = hist.before.agenda

\* The deletes that are one store call: with the store connected, a
\* well-formed id that matches no record of the collection answers not-found
\* and changes nothing.
DeleteMissing ==
    /\ (/\ resp'.op = "delete_attendance" /\ Connected
        /\ ObjectId(resp'.req.attendance_id) # InvalidId
        /\ Named(attendance, resp'.req.attendance_id) = {})
       => (resp'.code = 404 /\ UNCHANGED <<student, attendance, agenda, grade>>)
    /\ (/\ resp'.op = "delete_grade" /\ Connected
        /\ ObjectId(resp'.req.grade_id) # InvalidId
        /\ Named(grade, resp'.req.grade_id) = {})
       => (resp'.code = 404 /\ UNCHANGED <<student, attendance, agenda, grade>>)
    /\ (/\ resp'.op = "delete_agenda" /\ Connected
        /\ ObjectId(resp'.req.agenda_id) # InvalidId
        /\ Named(agenda, resp'.req.agenda_id) = {})
       => (resp'.code = 404 /\ UNCHANGED <<student, attendance, agenda, grade>>)

\* C4: with the store connected, deleting a well-formed id that matches no
\* record of its collection answers not-found and leaves every collection
\* unchanged, for students (the three store calls of the request back to
\* back), attendance, grades and agendas alike.
C4_DeleteMissingMutatesNothing ==
    []DeleteStudentMissing /\ [][DeleteMissing]_vars

\* The single-call deletes do answer not-found and change nothing.
C4_SingleCallDeletes == [][DeleteMissing]_vars

\* The attendance records a listing with these parameters is to return: the
\* date within the inclusive bounds that are given, the student_id equal to a
\* given (non-empty) one.
InRange(date, start_date, end_date) ==
    /\ start_date # NoDate => date >= start_date
    /\ end_date # NoDate => date <= end_date

OfStudent(a, student_id) ==
    (student_id # None /\ student_id # "") => a.student_id = student_id

\* What a listing with these parameters is to return.
Listed(req) ==
    {Rendered(a) : a \in
        {x \in attendance :
            /\ OfStudent(x, req.student_id)
            /\ IF req.start_date # NoDate \/ req.end_date # NoDate
               THEN InRange(x.date, req.start_date, req.end_date)
               ELSE req.on_date # NoDate => x.date = req.on_date}}

\* C5: list-attendance with start_date and/or end_date, and optionally a
\* student_id, returns exactly the stored records whose date lies in the
\* inclusive range (an omitted bound is unbounded) and whose student_id is the
\* given one, and changes no stored state.
C5_RangeList ==
    [][(/\ resp'.op = "list_attendance"
        /\ (resp'.req.start_date # NoDate \/ resp'.req.end_date # NoDate))
       => /\ resp'.code = 200
          /\ resp'.body =
               {Rendered(a) : a \in
                   {x \in attendance :
                       /\ InRange(x.date, resp'.req.start_date, resp'.req.end_date)
                       /\ OfStudent(x, resp'.req.student_id)}}
          /\ UNCHANGED Store]_vars

\* What list-attendance does answer: an empty list without a store
\* connection; a server error where the truth test of database.db raises, or
\* where it is true and a date parameter is given; otherwise the records its
\* student_id selects.  It changes nothing.
ListAttendanceAnswers ==
    [][resp'.op = "list_attendance"
       => /\ UNCHANGED Store
          /\ IF ~Connected THEN resp'.code = 200 /\ resp'.body = {}
             ELSE IF bool_raises(db) THEN resp'.code = 500
             ELSE IF \/ resp'.req.on_date # NoDate
                     \/ resp'.req.start_date # NoDate
                     \/ resp'.req.end_date # NoDate
             THEN resp'.code = 500 /\ resp'.body = InvalidDocument
             ELSE resp'.code = 200 /\ resp'.body = Listed(resp'.req)]_vars

\* A listing with a range was refused on a connected store: the truth test
\* of database.db raised.
ListRefused ==
    /\ resp.op = "list_attendance" /\ resp.code = 500
    /\ resp.body = NotImplementedError
    /\ resp.req.start_date # NoDate /\ resp.req.end_date # NoDate

\* C6: create-grade with a score outside 0..100 answers a validation error
\* and leaves every collection unchanged; with the store connected, a score
\* within the range, 0 and 100 included, is accepted and inserts exactly one
\* record, which carries the payload.
C6_ScoreRange ==
    [][resp'.op = "add_grade"
       => IF resp'.req.score < 0 \/ resp'.req.score > 100
          THEN resp'.code = 422 /\ UNCHANGED Store
          ELSE /\ resp'.code # 422
               /\ Connected =>
                    /\ resp'.code = 200
                    /\ \E g \in grade' \ grade :
                          /\ grade' = grade \cup {g}
                          /\ IdText[g._id] = resp'.body._id
                          /\ g.student_id = resp'.req.student_id
                          /\ g.subject = resp'.req.subject
                          /\ g.score = resp'.req.score
                          /\ g.date = resp'.req.date
                    /\ UNCHANGED <<student, attendance, agenda>>]_vars

\* Grades with the scores 0 and 100 are stored and a grade with a score
\* outside the range has just been rejected.
C6_Witness ==
    /\ resp.op = "add_grade" /\ resp.code = 422
    /\ resp.req.score \in {-1, 101}
    /\ \E g \in grade : g.score = 0
    /\ \E g \in grade : g.score = 100

\* C7: with the store connected, create-student adds exactly one record, with
\* the payload's name and className and a non-empty generated id that the
\* response returns, and changes no existing record; a list-students that
\* follows it contains a record with that id, name and className.
C7_CreateListRoundTrip ==
    /\ [][(resp'.op = "create_student" /\ Connected)
          => /\ resp'.code = 200
             /\ resp'.body._id # ""
             /\ \E s \in student' \ student :
                   /\ student' = student \cup {s}
                   /\ IdText[s._id] = resp'.body._id
                   /\ s.name = resp'.req.name
                   /\ s.className = resp'.req.className
                   /\ \A t \in student : t._id # s._id
             /\ UNCHANGED <<attendance, agenda, grade>>]_vars
    /\ []((/\ resp.op = "list_students"
           /\ hist.op = "create_student" /\ hist.code = 200)
          => \E r \in resp.body :
                /\ r._id = hist.body._id
                /\ r.name = hist.req.name
                /\ r.className = hist.req.className)

\* A list-students has followed a create-student and lists two students.
C7_Witness ==
    /\ resp.op = "list_students"
    /\ hist.op = "create_student" /\ hist.code = 200
    /\ Cardinality(resp.body) = 2
    /\ \E r \in resp.body : r._id = hist.body._id /\ r.name = hist.req.name

\* C8: with the store connected, mark-attendance upserts and then re-fetches
\* by key, and answers with what the re-fetch finds at that later moment:
\* the record stored under the key then, whatever its status, or no record.
C8_UpsertThenRefetch ==
    [][(resp'.op = "mark_attendance" /\ Connected)
       => /\ resp'.code = 200
          /\ \/ resp'.body = NoDoc
             \/ \E a \in attendance' :
                   SameKey(a, resp'.req) /\ resp'.body = Rendered(a)]_vars

C9_DependentsGoneStudentKept ==
    /\ hist.op = "delete_student" /\ hist.stage = "grade"
    /\ Referencing(hist.before.grade, hist.req) # {}
    /\ Named(student, hist.req) # {}
    /\ Referencing(grade, hist.req) = {}
    /\ Referencing(attendance, hist.req) = {}
    /\ \E c \in BagToSet(inflight) :
          c.op = "delete_student" /\ c.pc = "student" /\ c.student_id = hist.req

\* C10: when list-attendance is given on_date and a date range, the exact
\* date is discarded and the result is exactly the records in the range (of
\* the given student_id); given on_date and no range, it is exactly the
\* records with that date.
C10_RangeOverridesExactDate ==
    [][(resp'.op = "list_attendance" /\ resp'.req.on_date # NoDate)
       => /\ resp'.code = 200
          /\ resp'.body =
               {Rendered(a) : a \in
                   {x \in attendance :
                       /\ OfStudent(x, resp'.req.student_id)
                       /\ IF resp'.req.start_date # NoDate \/ resp'.req.end_date # NoDate
                          THEN InRange(x.date, resp'.req.start_date, resp'.req.end_date)
                          ELSE x.date = resp'.req.on_date}}]_vars

====
